---- MODULE Spec2Model ----
(***************************************************************************)
(* A model of retrieve.py: the inverted Index (add and its accessors),     *)
(* the four retrieval functions (runANDQuery, runORQuery, runQLQuery,      *)
(* runBM25Query), QueryResults.getFinalResults and the runQueries driver.  *)
(*                                                                         *)
(* Strings are sequences of one-character strings, so that split(),        *)
(* upper(), replace() and the ordering of document IDs are computed and    *)
(* not assumed.  A Python dict is a function, a Python set is a set, and   *)
(* every method is an operator from the object it is called on to the      *)
(* pair [val |-> what it returns, self |-> the object afterwards].         *)
(***************************************************************************)
EXTENDS Integers, Sequences, FiniteSets, TLC

VARIABLES
    index,         \* the Index object: [index, documents, totalUniqueTokens, totalTokenCount, docCount]
    query,         \* the query being answered: [type, queryName, queryWords]
    queryResults,  \* a QueryResults object: [results, method]
    queriesFile,   \* the lines of the queries file runQueries has read
    outputFile,    \* the rows runQueries has written to outputFile
    raised         \* the exception the last call ended with, NoError if it returned

vars == <<index, query, queryResults, queriesFile, outputFile, raised>>

----------------------------------------------------------------------------
(* Bounds and input universes *)

\* Index.add is called at most MaxAdds times on one Index.
MaxAdds == 2
\* A corpus handed to buildIndex holds at most MaxDocs documents.
MaxDocs == 2
\* A QueryResults object receives at most MaxResults results.
MaxResults == 3
\* A queries file holds at most MaxLines lines.
MaxLines == 2

\* Python's None (the counts it stands in for are never negative).
None == -1

NoError == "NoError"

Whitespace == {" ", "\t", "\n"}

\* ord() of the characters document IDs are made of.
Ord == ("0" :> 48) @@ ("1" :> 49) @@ ("2" :> 50) @@ ("d" :> 100)

\* "d1" < "d10" < "d2" as strings.
DocIDs == { <<"d", "1">>, <<"d", "1", "0">>, <<"d", "2">> }

\* Text bodies: empty, whitespace only, a single token, a repeated token with
\* another in between, leading/trailing/repeated whitespace of several kinds
\* with a two-character token, a token repeated back to back.
Texts ==
    { <<>>,
      <<" ", "\t">>,
      <<"a">>,
      <<"a", " ", "b", " ", "a">>,
      <<" ", "b", "\n", "\n", "a", "b", " ">>,
      <<"b", " ", "b">> }

\* The tokens of Texts, and "z", which occurs in none of them.
Tokens == { <<"a">>, <<"b">>, <<"a", "b">>, <<"z">> }

\* The documents handed to Index.add one by one.
AddedDocuments == [storyID : DocIDs, text : Texts]

\* The text bodies of a corpus handed to buildIndex.
CorpusTexts == Texts \ { <<>> }

\* Query term lists: empty, one term (present or not), two terms in both
\* orders, a repeated term, an absent term first or last, three terms.
QueryWordLists ==
    { <<>>,
      << <<"a">> >>, << <<"z">> >>,
      << <<"a">>, <<"b">> >>, << <<"b">>, <<"a">> >>, << <<"a">>, <<"a">> >>,
      << <<"a">>, <<"z">> >>, << <<"z">>, <<"b">> >>,
      << <<"a">>, <<"b">>, <<"a", "b">> >> }

\* the type tags runQueries knows, as the strings it compares with
TypeAND == <<"A", "N", "D">>
TypeOR == <<"O", "R">>
TypeQL == <<"Q", "L">>
TypeBM25 == <<"B", "M", "2", "5">>

\* before any query is answered
NoQuery == [type |-> <<>>, queryName |-> <<>>, queryWords |-> <<>>]

----------------------------------------------------------------------------
(* str.split() *)

RECURSIVE SplitFrom(_, _, _, _)
SplitFrom(text, i, cur, acc) ==
    IF i > Len(text)
    THEN IF cur = <<>> THEN acc ELSE Append(acc, cur)
    ELSE IF text[i] \in Whitespace
         THEN SplitFrom(text, i + 1, <<>>, IF cur = <<>> THEN acc ELSE Append(acc, cur))
         ELSE SplitFrom(text, i + 1, Append(cur, text[i]), acc)

\* text.split(): the maximal runs of non-whitespace characters, in order.
Split(text) == SplitFrom(text, 1, <<>>, <<>>)

----------------------------------------------------------------------------
(* class Index *)

\* Index.__init__
NewIndex ==
    [ index             |-> <<>>,
      documents         |-> <<>>,
      totalUniqueTokens |-> None,
      totalTokenCount   |-> None,
      docCount          |-> 0 ]

\* A plausible slip: the position counter starts at 1.
AppendPositionOneBased(ind, token, storyID, i) ==
    LET ind1 == IF token \notin DOMAIN ind THEN ind @@ (token :> <<>>) ELSE ind
        ind2 == IF storyID \notin DOMAIN ind1[token]
                THEN [ind1 EXCEPT ![token] = @ @@ (storyID :> <<>>)]
                ELSE ind1
    IN  [ind2 EXCEPT ![token][storyID] = Append(@, i + 1)]

\* self.index[token][storyID].append(i), creating the two levels on first use
AppendPosition(ind, token, storyID, i) ==
    LET ind1 == IF token \notin DOMAIN ind THEN ind @@ (token :> <<>>) ELSE ind
        ind2 == IF storyID \notin DOMAIN ind1[token]
                THEN [ind1 EXCEPT ![token] = @ @@ (storyID :> <<>>)]
                ELSE ind1
    IN  [ind2 EXCEPT ![token][storyID] = Append(@, i)]

\* the loop of Index.add over document['text'].split(); i is the 0-based position
RECURSIVE AddTokens(_, _, _, _)
AddTokens(ind, storyID, tokens, i) ==
    IF i >= Len(tokens)
    THEN ind
    ELSE AddTokens(AppendPosition(ind, tokens[i + 1], storyID, i), storyID, tokens, i + 1)

\* Index.add(document)
IndexAdd(self, document) ==
    [ self EXCEPT
        !.docCount  = @ + 1,
        !.documents = [d \in DOMAIN @ \cup {document.storyID} |->
                          IF d = document.storyID THEN document ELSE @[d]],
        !.index     = AddTokens(@, document.storyID, Split(document.text), 0) ]

\* A plausible slip: the lookup is self.index.setdefault(token, {}), which stores.
getPostingsSetDefault(self, token) ==
    [ val  |-> IF token \in DOMAIN self.index THEN self.index[token] ELSE <<>>,
      self |-> [self EXCEPT !.index = IF token \in DOMAIN @ THEN @ ELSE @ @@ (token :> <<>>)] ]

\* Index.getPostings(token)
getPostings(self, token) ==
    [ val  |-> IF token \in DOMAIN self.index THEN self.index[token] ELSE <<>>,
      self |-> self ]

\* Index.getDocumentIDsForToken(token): the keys, which every caller uses as a set
getDocumentIDsForToken(self, token) ==
    [ val  |-> IF token \in DOMAIN self.index THEN DOMAIN self.index[token] ELSE {},
      self |-> self ]

\* Index.getTokenDocumentCount(token)
getTokenDocumentCount(self, token) ==
    [ val  |-> IF token \in DOMAIN self.index
               THEN Cardinality(DOMAIN self.index[token]) ELSE 0,
      self |-> self ]

\* Index.getDocumentLength(document)
getDocumentLength(self, document) ==
    [ val  |-> IF document \in DOMAIN self.documents
               THEN Len(Split(self.documents[document].text)) ELSE 0,
      self |-> self ]

\* Index.getTokenFrequencyInDocument(token, document)
getTokenFrequencyInDocument(self, token, document) ==
    [ val  |-> IF token \in DOMAIN self.index /\ document \in DOMAIN self.index[token]
               THEN Len(self.index[token][document]) ELSE 0,
      self |-> self ]

RECURSIVE SumLens(_, _)
SumLens(postings, docs) ==
    IF docs = {} THEN 0
    ELSE LET d == CHOOSE x \in docs : TRUE
         IN  Len(postings[d]) + SumLens(postings, docs \ {d})

\* A plausible slip: the number of documents holding the token, not its occurrences.
getTotalTokenFrequencyDocs(self, token) ==
    [ val  |-> IF token \in DOMAIN self.index
               THEN Cardinality(DOMAIN self.index[token]) ELSE 0,
      self |-> self ]

\* Index.getTotalTokenFrequency(token)
getTotalTokenFrequency(self, token) ==
    [ val  |-> IF token \in DOMAIN self.index
               THEN SumLens(self.index[token], DOMAIN self.index[token]) ELSE 0,
      self |-> self ]

\* Index.getUniqueTotalTokenCount()
getUniqueTotalTokenCount(self) ==
    IF self.totalUniqueTokens = None
    THEN LET n == Cardinality(DOMAIN self.index)
         IN  [ val |-> n, self |-> [self EXCEPT !.totalUniqueTokens = n] ]
    ELSE [ val |-> self.totalUniqueTokens, self |-> self ]

\* the loop of getTotalTokenCount over the tokens of self.index
RECURSIVE SumFrequencies(_, _)
SumFrequencies(self, tokens) ==
    IF tokens = {} THEN 0
    ELSE LET t == CHOOSE x \in tokens : TRUE
         IN  getTotalTokenFrequency(self, t).val + SumFrequencies(self, tokens \ {t})

\* A plausible slip: no cache, the sum is taken on every call.
getTotalTokenCountNoCache(self) ==
    LET sum == SumFrequencies(self, DOMAIN self.index)
    IN  [ val |-> sum, self |-> [self EXCEPT !.totalTokenCount = sum] ]

\* Index.getTotalTokenCount()
getTotalTokenCount(self) ==
    IF self.totalTokenCount = None
    THEN LET sum == SumFrequencies(self, DOMAIN self.index)
         IN  [ val |-> sum, self |-> [self EXCEPT !.totalTokenCount = sum] ]
    ELSE [ val |-> self.totalTokenCount, self |-> self ]

\* Index.getNumberOfDocuments()
getNumberOfDocuments(self) ==
    [ val |-> self.docCount, self |-> self ]

\* Index.getAverageDocumentLength(): the quotient as a fraction, or the
\* ZeroDivisionError of an Index without documents
getAverageDocumentLength(self) ==
    LET total == getTotalTokenCount(self)
        n     == getNumberOfDocuments(total.self)
    IN  [ val  |-> IF n.val = 0
                   THEN [error |-> "ZeroDivisionError"]
                   ELSE [num |-> total.val, den |-> n.val],
          self |-> n.self ]

----------------------------------------------------------------------------
(* class QueryResults, class QueryResult *)

\* Scores are fixed-point numbers: Scale units make 1.
Scale == 10 ^ 5

\* QueryResults.__init__(method), before any result is added
NewQueryResults(method) == [results |-> <<>>, method |-> method]

\* no QueryResults object: the call that would have returned one raised
NoResults == [results |-> <<>>, method |-> ""]

\* QueryResults.add(document, score).  Field n is not in the program: it
\* numbers the results of one QueryResults object in the order they were added.
QueryResultsAdd(self, document, score) ==
    [ self EXCEPT !.results =
        Append(@, [document |-> document, score |-> score, n |-> Len(@) + 1]) ]

\* results.add(document, score) for each <<document, score>> of a sequence
RECURSIVE AddEach(_, _)
AddEach(self, scored) ==
    IF scored = <<>> THEN self
    ELSE AddEach(QueryResultsAdd(self, Head(scored)[1], Head(scored)[2]), Tail(scored))

----------------------------------------------------------------------------
(* QueryResults.getFinalResults *)

\* s < t on Python strings: by the first character that differs, a proper
\* prefix coming first
RECURSIVE StrLess(_, _)
StrLess(s, t) ==
    IF t = <<>> THEN FALSE
    ELSE IF s = <<>> THEN TRUE
    ELSE IF Ord[Head(s)] # Ord[Head(t)] THEN Ord[Head(s)] < Ord[Head(t)]
    ELSE StrLess(Tail(s), Tail(t))

\* A plausible slip: every method is ranked by score.
BeforeByScoreOnly(method, x, y) == x.score > y.score

\* A plausible slip: the descending order is had by sorting ascending and
\* reversing, which reverses the ties too.
BeforeTiesReversed(method, x, y) ==
    IF method = "AND" \/ method = "OR"
    THEN StrLess(x.document, y.document)
    ELSE x.score >= y.score

\* whether the sort of getFinalResults must put x before y: ascending by
\* document for AND and OR, descending by score (reverse=True) for the rest
Before(method, x, y) ==
    IF method = "AND" \/ method = "OR"
    THEN StrLess(x.document, y.document)
    ELSE x.score > y.score

\* list.sort is stable: x goes in front of the first element it must precede
RECURSIVE InsertSorted(_, _, _)
InsertSorted(method, sorted, x) ==
    IF sorted = <<>> THEN <<x>>
    ELSE IF Before(method, x, Head(sorted)) THEN <<x>> \o sorted
    ELSE <<Head(sorted)>> \o InsertSorted(method, Tail(sorted), x)

RECURSIVE SortInto(_, _, _)
SortInto(method, sorted, results) ==
    IF results = <<>> THEN sorted
    ELSE SortInto(method, InsertSorted(method, sorted, Head(results)), Tail(results))

\* self.results.sort(key=...)
SortResults(method, results) == SortInto(method, <<>>, results)

\* round(score, 4) of a fixed-point score: to the nearest ten units, a tie
\* going to the even neighbour
Round4(score) ==
    LET q == score \div 10
        r == score % 10
    IN  IF r < 5 THEN 10 * q
        ELSE IF r > 5 THEN 10 * (q + 1)
        ELSE IF q % 2 = 0 THEN 10 * q ELSE 10 * (q + 1)

\* one formatted row, field by field (the padding of the f-string is left out)
Row(queryName, result, rank, score, runTag, method) ==
    [ queryName |-> queryName,
      skip      |-> "skip",
      document  |-> result.document,
      rank      |-> rank,
      score     |-> score,
      tag       |-> <<runTag, method>> ]

\* QueryResults.getFinalResults(queryName, runTag): the rows returned, and the
\* object with its results sorted in place
getFinalResults(self, queryName, runTag) ==
    LET sorted == SortResults(self.method, self.results)
    IN  [ val  |-> [i \in 1..Len(sorted) |->
                       Row(queryName, sorted[i], i, Round4(sorted[i].score),
                           runTag, self.method)],
          self |-> [self EXCEPT !.results = sorted] ]

----------------------------------------------------------------------------
(* Iterating over a Python set *)

\* The orders in which a set of document IDs can be iterated: the language
\* fixes none, so all of them.
RECURSIVE SetOrders(_)
SetOrders(S) ==
    IF S = {} THEN { <<>> }
    ELSE UNION { { <<d>> \o rest : rest \in SetOrders(S \ {d}) } : d \in S }

\* the elements of documents in the order given
Iterate(documents, order) == SelectSeq(order, LAMBDA d : d \in documents)

----------------------------------------------------------------------------
(* runANDQuery, runORQuery *)

\* A plausible slip: no firstIteration flag, every term is intersected.
RECURSIVE ANDDocumentsNoFirst(_, _, _, _, _)
ANDDocumentsNoFirst(self, queryWords, i, documents, firstIteration) ==
    IF i > Len(queryWords) THEN documents
    ELSE ANDDocumentsNoFirst(self, queryWords, i + 1,
             documents \cap getDocumentIDsForToken(self, queryWords[i]).val, FALSE)

\* the first loop of runANDQuery
RECURSIVE ANDDocuments(_, _, _, _, _)
ANDDocuments(self, queryWords, i, documents, firstIteration) ==
    IF i > Len(queryWords) THEN documents
    ELSE LET relevantDocs == getDocumentIDsForToken(self, queryWords[i]).val
         IN  IF firstIteration
             THEN ANDDocuments(self, queryWords, i + 1, relevantDocs, FALSE)
             ELSE ANDDocuments(self, queryWords, i + 1, documents \cap relevantDocs, FALSE)

\* A plausible slip: the loop of runANDQuery pasted without its flag.
RECURSIVE ORDocumentsIntersect(_, _, _, _)
ORDocumentsIntersect(self, queryWords, i, documents) ==
    IF i > Len(queryWords) THEN documents
    ELSE ORDocumentsIntersect(self, queryWords, i + 1,
             documents \cap getDocumentIDsForToken(self, queryWords[i]).val)

\* the first loop of runORQuery, runQLQuery and runBM25Query
RECURSIVE ORDocuments(_, _, _, _)
ORDocuments(self, queryWords, i, documents) ==
    IF i > Len(queryWords) THEN documents
    ELSE ORDocuments(self, queryWords, i + 1,
             documents \cup getDocumentIDsForToken(self, queryWords[i]).val)

\* runANDQuery(index, queryWords); order is an iteration order that covers documents
runANDQuery(self, queryWords, order) ==
    [ val    |-> LET documents == Iterate(ANDDocuments(self, queryWords, 1, {}, TRUE), order)
                 IN  AddEach(NewQueryResults("AND"),
                             [i \in 1..Len(documents) |-> <<documents[i], Scale>>]),
      self   |-> self,
      raised |-> NoError ]

\* runORQuery(index, queryWords); order is an iteration order that covers documents
runORQuery(self, queryWords, order) ==
    [ val    |-> LET documents == Iterate(ORDocuments(self, queryWords, 1, {}), order)
                 IN  AddEach(NewQueryResults("OR"),
                             [i \in 1..Len(documents) |-> <<documents[i], Scale>>]),
      self   |-> self,
      raised |-> NoError ]

----------------------------------------------------------------------------
(* runQLQuery *)

u == 300

\* numerator / denominator for one word and one document, both multiplied by
\* total, which is what getTotalTokenCount() returns, to stay in the integers
QLTerm(self, word, document, total) ==
    [ num |-> getTokenFrequencyInDocument(self, word, document).val * total
                + u * getTotalTokenFrequency(self, word).val,
      den |-> (getDocumentLength(self, document).val + u) * total ]

\* the score of one document: the sum of math.log(num / den) over the terms
\* listed, which the model keeps as the list
QLScore(self, queryWords, document, total) ==
    [ sumOfLogs |-> [i \in 1..Len(queryWords) |->
                        QLTerm(self, queryWords[i], document, total)] ]

\* what the second loop of runQLQuery raises: the division by a zero total
\* token count, or math.log of a numerator that is not positive
QLRaised(self, queryWords, documents, total) ==
    IF documents = {} \/ queryWords = <<>> THEN NoError
    ELSE IF total = 0 THEN "ZeroDivisionError"
    ELSE IF \E i \in 1..Len(queryWords) : \E d \in documents :
                QLTerm(self, queryWords[i], d, total).num <= 0
         THEN "ValueError"
         ELSE NoError

\* runQLQuery(index, queryWords); order is an iteration order that covers documents
runQLQuery(self, queryWords, order) ==
    LET documents == ORDocuments(self, queryWords, 1, {})
        counted   == getTotalTokenCount(self)
        raises    == QLRaised(self, queryWords, documents, counted.val)
        ordered   == Iterate(documents, order)
    IN  [ val    |-> IF raises = NoError
                     THEN AddEach(NewQueryResults("QL"),
                                  [i \in 1..Len(ordered) |->
                                      <<ordered[i],
                                        QLScore(self, queryWords, ordered[i], counted.val)>>])
                     ELSE NoResults,
          self   |-> IF documents = {} \/ queryWords = <<>> THEN self ELSE counted.self,
          raised |-> raises ]

----------------------------------------------------------------------------
(* runBM25Query *)

\* k1 = 1.8, k2 = 5, b = 0.75
k1Tenths == 18
k2 == 5
bHundredths == 75

\* bigK = k1 * ((1 - b) + b * (getDocumentLength(document) / avg)) as a
\* fraction, avg being what getAverageDocumentLength() returns
BigK(self, document, avg) ==
    LET dl == getDocumentLength(self, document).val
    IN  [ num |-> k1Tenths * ((100 - bHundredths) * avg.num + bHundredths * dl * avg.den),
          den |-> 10 * 100 * avg.num ]

\* for one word and one document: the argument of math.log in term1 (as a
\* fraction, doubled), f_i, and whether the word adds to the score
BM25Term(self, word, document) ==
    LET f_i  == getTokenFrequencyInDocument(self, word, document).val
        n_i  == getTokenDocumentCount(self, word).val
        bigN == getNumberOfDocuments(self).val
        q_fi == 1
    IN  [ logArg |-> [num |-> 2 * (bigN - n_i) + 1, den |-> 2 * n_i + 1],
          f_i    |-> f_i,
          adds   |-> /\ 2 * (bigN - n_i) + 1 # 2 * n_i + 1
                     /\ (k1Tenths + 10) * f_i # 0
                     /\ (k2 + 1) * q_fi # 0 ]

\* the score of one document: the sum of term1 * term2 * term3 over the words
\* that add to it, which the model keeps as the list
BM25Score(self, queryWords, document, avg) ==
    [ bigK  |-> BigK(self, document, avg),
      terms |-> SelectSeq([i \in 1..Len(queryWords) |->
                              BM25Term(self, queryWords[i], document)],
                          LAMBDA t : t.adds) ]

\* what the second loop of runBM25Query raises: the divisions by a zero
\* document count or a zero average length, or math.log of an argument that
\* is not positive
BM25Raised(self, queryWords, documents, avg) ==
    IF documents = {} THEN NoError
    ELSE IF "error" \in DOMAIN avg THEN avg.error
    ELSE IF avg.num = 0 THEN "ZeroDivisionError"
    ELSE IF \E i \in 1..Len(queryWords) : \E d \in documents :
                BM25Term(self, queryWords[i], d).logArg.num <= 0
         THEN "ValueError"
         ELSE NoError

\* runBM25Query(index, queryWords); order is an iteration order that covers documents
runBM25Query(self, queryWords, order) ==
    LET documents == ORDocuments(self, queryWords, 1, {})
        averaged  == getAverageDocumentLength(self)
        raises    == BM25Raised(self, queryWords, documents, averaged.val)
        ordered   == Iterate(documents, order)
    IN  [ val    |-> IF raises = NoError
                     THEN AddEach(NewQueryResults("BM25"),
                                  [i \in 1..Len(ordered) |->
                                      <<ordered[i],
                                        BM25Score(self, queryWords, ordered[i], averaged.val)>>])
                     ELSE NoResults,
          self   |-> IF documents = {} THEN self ELSE averaged.self,
          raised |-> raises ]

----------------------------------------------------------------------------
(* class Query, runQueries *)

\* str.upper() on the characters type tags are made of
UpperChar(c) ==
    CASE c = "a" -> "A" [] c = "b" -> "B" [] c = "d" -> "D" [] c = "l" -> "L"
      [] c = "m" -> "M" [] c = "n" -> "N" [] c = "o" -> "O" [] c = "q" -> "Q"
      [] c = "r" -> "R" [] c = "x" -> "X" [] OTHER -> c

StrUpper(str) == [i \in 1..Len(str) |-> UpperChar(str[i])]

\* the method name runQueries' branch for an upper-cased type hands to QueryResults
MethodOf(type) ==
    CASE type = TypeAND -> "AND" [] type = TypeOR -> "OR"
      [] type = TypeQL -> "QL" [] type = TypeBM25 -> "BM25" [] OTHER -> ""

\* line.split('\t'): a field between every two tabs, empty ones too
RECURSIVE SplitTabFrom(_, _, _, _)
SplitTabFrom(line, i, cur, acc) ==
    IF i > Len(line) THEN Append(acc, cur)
    ELSE IF line[i] = "\t"
         THEN SplitTabFrom(line, i + 1, <<>>, Append(acc, cur))
         ELSE SplitTabFrom(line, i + 1, Append(cur, line[i]), acc)

SplitTab(line) == SplitTabFrom(line, 1, <<>>, <<>>)

\* word.replace('\n', '')
RemoveNewlines(word) == SelectSeq(word, LAMBDA c : c # "\n")

\* Query.__init__(query), query being a list of at least two fields
NewQuery(fields) ==
    [ type       |-> fields[1],
      queryName  |-> fields[2],
      queryWords |-> [k \in 1..(Len(fields) - 2) |-> RemoveNewlines(fields[k + 2])] ]

\* the first loop of runQueries: every line becomes a Query
ReadQueries(lines) == [i \in 1..Len(lines) |-> NewQuery(SplitTab(lines[i]))]

\* the second loop of runQueries from query i on: results is the list built
\* so far, orders[i] an iteration order for query i.  It ends after the last
\* query, or at the query whose retrieval function raises.
RECURSIVE AnswerQueries(_, _, _, _, _)
AnswerQueries(self, queries, i, orders, results) ==
    IF i > Len(queries)
    THEN [self |-> self, results |-> results, raised |-> NoError, at |-> i - 1]
    ELSE LET type == StrUpper(queries[i].type)
             r == IF type = TypeAND THEN runANDQuery(self, queries[i].queryWords, orders[i])
                  ELSE IF type = TypeOR THEN runORQuery(self, queries[i].queryWords, orders[i])
                  ELSE IF type = TypeQL THEN runQLQuery(self, queries[i].queryWords, orders[i])
                  ELSE runBM25Query(self, queries[i].queryWords, orders[i])
         IN  IF type \notin {TypeAND, TypeOR, TypeQL, TypeBM25}
             THEN AnswerQueries(self, queries, i + 1, orders, results)
             ELSE IF r.raised # NoError
             THEN [self |-> r.self, results |-> results, raised |-> r.raised, at |-> i]
             ELSE AnswerQueries(r.self, queries, i + 1, orders, Append(results, r.val))

\* results[i].getFinalResults(queryName) as runQueries gets it.  The scores
\* of QL and BM25 are sums of logarithms, which the model does not evaluate:
\* the sort by score may leave their results in any order, and the iteration
\* order they were added in already ranges over every order.
FinalResults(self, queryName) ==
    IF self.method = "AND" \/ self.method = "OR"
    THEN getFinalResults(self, queryName, "cgibbons").val
    ELSE [i \in 1..Len(self.results) |->
             Row(queryName, self.results[i], i, [round4 |-> self.results[i].score],
                 "cgibbons", self.method)]

\* the third loop of runQueries from i on: file is what has been written so
\* far; results[i] of a list with fewer than i elements is an IndexError
RECURSIVE WriteResults(_, _, _, _)
WriteResults(queries, results, i, file) ==
    IF i > Len(queries) THEN [file |-> file, raised |-> NoError]
    ELSE IF i > Len(results) THEN [file |-> file, raised |-> "IndexError"]
    ELSE WriteResults(queries, results, i + 1,
                      file \o FinalResults(results[i], queries[i].queryName))

\* runQueries(index, queriesFile, outputFile), lines being the lines of
\* queriesFile: opened tells whether outputFile was opened (and truncated),
\* file what was written to it
runQueries(self, lines, orders) ==
    LET queries  == ReadQueries(lines)
        answered == AnswerQueries(self, queries, 1, orders, <<>>)
        written  == WriteResults(queries, answered.results, 1, <<>>)
    IN  [ self    |-> answered.self,
          query   |-> IF answered.at = 0 THEN NoQuery ELSE queries[answered.at],
          results |-> answered.results,
          opened  |-> answered.raised = NoError,
          file    |-> written.file,
          raised  |-> IF answered.raised # NoError THEN answered.raised ELSE written.raised ]

----------------------------------------------------------------------------
(* Calls on one Index *)

\* every accessor call on the tokens and document IDs of the model
AccessorCalls ==
    [op : {"getPostings", "getDocumentIDsForToken", "getTokenDocumentCount",
           "getTotalTokenFrequency"}, args : {<<t>> : t \in Tokens}]
    \cup [op : {"getDocumentLength"}, args : {<<d>> : d \in DocIDs}]
    \cup [op : {"getTokenFrequencyInDocument"}, args : Tokens \X DocIDs]
    \cup [op : {"getAverageDocumentLength", "getUniqueTotalTokenCount",
                "getTotalTokenCount", "getNumberOfDocuments"}, args : {<<>>}]

\* the accessor a call names, applied to its arguments
Eval(self, call) ==
    CASE call.op = "getPostings" -> getPostings(self, call.args[1])
      [] call.op = "getDocumentIDsForToken" -> getDocumentIDsForToken(self, call.args[1])
      [] call.op = "getTokenDocumentCount" -> getTokenDocumentCount(self, call.args[1])
      [] call.op = "getDocumentLength" -> getDocumentLength(self, call.args[1])
      [] call.op = "getAverageDocumentLength" -> getAverageDocumentLength(self)
      [] call.op = "getTokenFrequencyInDocument" ->
             getTokenFrequencyInDocument(self, call.args[1], call.args[2])
      [] call.op = "getTotalTokenFrequency" -> getTotalTokenFrequency(self, call.args[1])
      [] call.op = "getUniqueTotalTokenCount" -> getUniqueTotalTokenCount(self)
      [] call.op = "getTotalTokenCount" -> getTotalTokenCount(self)
      [] call.op = "getNumberOfDocuments" -> getNumberOfDocuments(self)

\* an accessor is called on the Index: it may fill a cache, and it returns or raises
Access(call) ==
    LET r == Eval(index, call)
    IN  /\ index' = r.self
        /\ raised' = IF call.op = "getAverageDocumentLength" /\ "error" \in DOMAIN r.val
                     THEN r.val.error ELSE NoError
        /\ UNCHANGED <<query, queryResults, queriesFile, outputFile>>

Add ==
    /\ index.docCount < MaxAdds
    /\ \E document \in AddedDocuments : index' = IndexAdd(index, document)
    /\ raised' = NoError
    /\ UNCHANGED <<query, queryResults, queriesFile, outputFile>>

GetPostings == \E t \in Tokens : Access([op |-> "getPostings", args |-> <<t>>])
GetDocumentIDsForToken == \E t \in Tokens : Access([op |-> "getDocumentIDsForToken", args |-> <<t>>])
GetTokenDocumentCount == \E t \in Tokens : Access([op |-> "getTokenDocumentCount", args |-> <<t>>])
GetDocumentLength == \E d \in DocIDs : Access([op |-> "getDocumentLength", args |-> <<d>>])
GetAverageDocumentLength == Access([op |-> "getAverageDocumentLength", args |-> <<>>])
GetTokenFrequencyInDocument ==
    \E t \in Tokens, d \in DocIDs : Access([op |-> "getTokenFrequencyInDocument", args |-> <<t, d>>])
GetTotalTokenFrequency == \E t \in Tokens : Access([op |-> "getTotalTokenFrequency", args |-> <<t>>])
GetUniqueTotalTokenCount == Access([op |-> "getUniqueTotalTokenCount", args |-> <<>>])
GetTotalTokenCount == Access([op |-> "getTotalTokenCount", args |-> <<>>])
GetNumberOfDocuments == Access([op |-> "getNumberOfDocuments", args |-> <<>>])

Init ==
    /\ index = NewIndex
    /\ query = NoQuery
    /\ queryResults = NoResults
    /\ queriesFile = <<>>
    /\ outputFile = <<>>
    /\ raised = NoError

Next ==
    \/ Add
    \/ GetPostings
    \/ GetDocumentIDsForToken
    \/ GetTokenDocumentCount
    \/ GetDocumentLength
    \/ GetAverageDocumentLength
    \/ GetTokenFrequencyInDocument
    \/ GetTotalTokenFrequency
    \/ GetUniqueTotalTokenCount
    \/ GetTotalTokenCount
    \/ GetNumberOfDocuments

\* One Index, with add and the accessors called in any order.
Spec == Init /\ [][Next]_vars

----------------------------------------------------------------------------
(* buildIndex and the four retrieval functions *)

\* the corpora: up to MaxDocs documents, each with an ID of its own
Corpora ==
    UNION { { c \in [1..n -> [storyID : DocIDs, text : CorpusTexts]] :
                \A i, j \in 1..n : i # j => c[i].storyID # c[j].storyID }
            : n \in 0..MaxDocs }

\* buildIndex(inputFile), inputFile['corpus'] being corpus
RECURSIVE buildIndexFrom(_, _)
buildIndexFrom(self, corpus) ==
    IF corpus = <<>> THEN self
    ELSE buildIndexFrom(IndexAdd(self, Head(corpus)), Tail(corpus))

buildIndex(corpus) == buildIndexFrom(NewIndex, corpus)

\* __main__ builds the index once, before any query
BuildIndex ==
    /\ index = NewIndex
    /\ query = NoQuery
    /\ \E corpus \in Corpora : index' = buildIndex(corpus)
    /\ raised' = NoError
    /\ UNCHANGED <<query, queryResults, queriesFile, outputFile>>

\* a retrieval function has run: r.val is what it returned, unless it raised
Answered(type, queryWords, r) ==
    /\ query' = [type |-> type, queryName |-> <<>>, queryWords |-> queryWords]
    /\ index' = r.self
    /\ raised' = r.raised
    /\ queryResults' = r.val
    /\ UNCHANGED <<queriesFile, outputFile>>

RunANDQuery ==
    \E queryWords \in QueryWordLists :
        \E order \in SetOrders(ANDDocuments(index, queryWords, 1, {}, TRUE)) :
            \E r \in { runANDQuery(index, queryWords, order) } :
                Answered(TypeAND, queryWords, r)

RunORQuery ==
    \E queryWords \in QueryWordLists :
        \E order \in SetOrders(ORDocuments(index, queryWords, 1, {})) :
            \E r \in { runORQuery(index, queryWords, order) } :
                Answered(TypeOR, queryWords, r)

RunQLQuery ==
    \E queryWords \in QueryWordLists :
        \E order \in SetOrders(ORDocuments(index, queryWords, 1, {})) :
            \E r \in { runQLQuery(index, queryWords, order) } :
                Answered(TypeQL, queryWords, r)

RunBM25Query ==
    \E queryWords \in QueryWordLists :
        \E order \in SetOrders(ORDocuments(index, queryWords, 1, {})) :
            \E r \in { runBM25Query(index, queryWords, order) } :
                Answered(TypeBM25, queryWords, r)

NextQuery ==
    \/ BuildIndex
    \/ RunANDQuery
    \/ RunORQuery
    \/ RunQLQuery
    \/ RunBM25Query

\* An index built once from a corpus, then queried.
SpecQuery == Init /\ [][NextQuery]_vars

----------------------------------------------------------------------------
(* The queries file and runQueries *)

\* Type tags as a queries file spells them: the four known ones in several
\* cases, and one that is none of them.
FileTypes ==
    { <<"A", "N", "D">>, <<"o", "r">>, <<"Q", "l">>, <<"b", "m", "2", "5">>, <<"x", "x">> }

FileWordLists == { << <<"a">> >>, << <<"a">>, <<"b">> >> }

Digit == <<"1", "2", "3", "4">>

\* fields joined by tabs
RECURSIVE JoinTab(_)
JoinTab(fields) ==
    IF Len(fields) = 1 THEN fields[1]
    ELSE fields[1] \o <<"\t">> \o JoinTab(Tail(fields))

\* line i of a queries file: type, the name "q<i>", the words, a newline
Line(i, type, words) == JoinTab(<<type, <<"q", Digit[i]>>>> \o words) \o <<"\n">>

\* the queries files: up to MaxLines lines
QueriesFiles ==
    UNION { { [i \in 1..n |-> Line(i, f[i][1], f[i][2])] :
                f \in [1..n -> FileTypes \X FileWordLists] }
            : n \in 0..MaxLines }

\* __main__ calls runQueries once, on the index it has built
RunQueries ==
    /\ query = NoQuery
    /\ queriesFile = <<>>
    /\ \E lines \in QueriesFiles :
          \E orders \in [1..Len(lines) -> SetOrders(DocIDs)] :
              \E r \in { runQueries(index, lines, orders) } :
                  /\ queriesFile' = lines
                  /\ index' = r.self
                  /\ query' = r.query
                  /\ queryResults' = IF r.results = <<>> THEN NoResults
                                     ELSE r.results[Len(r.results)]
                  /\ outputFile' = IF r.opened THEN r.file ELSE outputFile
                  /\ raised' = r.raised

NextDriver ==
    \/ BuildIndex
    \/ RunQueries

\* The program: the index is built from a corpus, then runQueries runs.
SpecDriver == Init /\ [][NextDriver]_vars

----------------------------------------------------------------------------
(* One QueryResults object *)

Methods == {"AND", "OR", "QL", "BM25"}

\* The scores added: two negative ones and 1; none is a tie of round(score, 4).
Scores == { -150003, -12, Scale }

QRNew ==
    /\ \E method \in Methods : queryResults' = NewQueryResults(method)
    /\ raised' = NoError
    /\ UNCHANGED <<index, query, queriesFile, outputFile>>

QRAdd ==
    /\ queryResults.method \in Methods
    /\ Len(queryResults.results) < MaxResults
    /\ \E document \in DocIDs, score \in Scores :
          queryResults' = QueryResultsAdd(queryResults, document, score)
    /\ raised' = NoError
    /\ UNCHANGED <<index, query, queriesFile, outputFile>>

QRGetFinalResults ==
    /\ queryResults.method \in Methods
    /\ queryResults' = getFinalResults(queryResults, "testQuery", "cgibbons").self
    /\ raised' = NoError
    /\ UNCHANGED <<index, query, queriesFile, outputFile>>

NextRank ==
    \/ QRNew
    \/ QRAdd
    \/ QRGetFinalResults

\* One QueryResults object, with add and getFinalResults called in any order.
SpecRank == Init /\ [][NextRank]_vars

----------------------------------------------------------------------------
(* Claims about one Index, checked under Spec *)

\* every add so far carried an ID of its own
DistinctIDs(self) == self.docCount = Cardinality(DOMAIN self.documents)

RECURSIVE SumOfDocumentLengths(_, _)
SumOfDocumentLengths(self, docs) ==
    IF docs = {} THEN 0
    ELSE LET d == CHOOSE x \in docs : TRUE
         IN  getDocumentLength(self, d).val + SumOfDocumentLengths(self, docs \ {d})

\* the occurrences the index holds, one element per stored position
OccurrenceSet(self) ==
    UNION { UNION { { <<t, d, i>> : i \in 1..Len(self.index[t][d]) }
                    : d \in DOMAIN self.index[t] }
            : t \in DOMAIN self.index }

\* the number of times token occurs in a token sequence
Occurrences(token, tokens) == Cardinality({ k \in 1..Len(tokens) : tokens[k] = token })

\* C4: after adds with pairwise distinct IDs and no getTotalTokenCount call
\* before the last of them, the call that fills the cache returns the sum of
\* getDocumentLength(d) over the documents added.
TotalTokenCountIsSumOfLengths ==
    [][ ( /\ index.totalTokenCount = None
          /\ index'.totalTokenCount # None
          /\ DistinctIDs(index) )
        => /\ getTotalTokenCount(index).val
                 = SumOfDocumentLengths(index, DOMAIN index.documents)
           /\ index'.totalTokenCount = getTotalTokenCount(index).val ]_vars

\* C4 witness: getTotalTokenCount has been called on two documents with
\* distinct IDs and five tokens between them.
TotalTokenCountWitness ==
    /\ index.docCount = 2
    /\ DistinctIDs(index)
    /\ index.totalTokenCount = 5
    /\ SumOfDocumentLengths(index, DOMAIN index.documents) = 5

\* C8: with pairwise distinct IDs, every stored position list is non-empty,
\* strictly increasing, and holds exactly the zero-based indices at which the
\* token occurs in the whitespace-split text of the document.
PositionListsMatchText ==
    DistinctIDs(index) =>
        \A t \in Tokens \cup DOMAIN index.index :
            \A d \in DOMAIN getPostings(index, t).val :
                LET p      == getPostings(index, t).val[d]
                    tokens == Split(index.documents[d].text)
                IN  /\ Len(p) > 0
                    /\ \A i \in 1..(Len(p) - 1) : p[i] < p[i + 1]
                    /\ { p[i] : i \in 1..Len(p) }
                         = { k - 1 : k \in { j \in 1..Len(tokens) : tokens[j] = t } }

\* C8 witness: a document holds a token at positions 0 and 2 and another
\* document holds a two-character token at position 1.
PositionListsWitness ==
    /\ DistinctIDs(index)
    /\ \E t \in DOMAIN index.index : \E d \in DOMAIN index.index[t] :
           index.index[t][d] = <<0, 2>>
    /\ \E d \in DOMAIN getPostings(index, <<"a", "b">>).val :
           getPostings(index, <<"a", "b">>).val[d] = <<1>>

\* C9: no accessor call changes the postings, the documents or the document
\* count, nor what any accessor call (itself included) returns afterwards.
AccessorsIdempotent ==
    \A c1 \in AccessorCalls :
        LET after == Eval(index, c1).self
        IN  /\ after.index = index.index
            /\ after.documents = index.documents
            /\ after.docCount = index.docCount
            /\ \/ after = index
               \/ \A c2 \in AccessorCalls : Eval(after, c2).val = Eval(index, c2).val

\* C9 witness: both caches have been filled on an Index of two documents.
AccessorsIdempotentWitness ==
    /\ index.docCount = 2
    /\ index.totalTokenCount = 5
    /\ index.totalUniqueTokens = 2

\* C10: getTotalTokenCount and getUniqueTotalTokenCount compute on their first
\* call (the occurrences, the distinct tokens) and return the cached value on
\* every later call, also after an add; getNumberOfDocuments and
\* getTotalTokenFrequency reflect the add.
CachedCountsIgnoreAdd ==
    [][ /\ index.totalTokenCount = None =>
              getTotalTokenCount(index).val = Cardinality(OccurrenceSet(index))
        /\ index.totalUniqueTokens = None =>
              getUniqueTotalTokenCount(index).val = Cardinality(DOMAIN index.index)
        /\ index.totalTokenCount # None =>
              /\ getTotalTokenCount(index).val = index.totalTokenCount
              /\ getTotalTokenCount(index').val = index.totalTokenCount
        /\ index.totalUniqueTokens # None =>
              /\ getUniqueTotalTokenCount(index).val = index.totalUniqueTokens
              /\ getUniqueTotalTokenCount(index').val = index.totalUniqueTokens
        /\ index'.docCount # index.docCount =>
              /\ getNumberOfDocuments(index').val = getNumberOfDocuments(index).val + 1
              /\ \E d \in DOMAIN index'.documents :
                     \A t \in Tokens :
                         getTotalTokenFrequency(index', t).val
                           = getTotalTokenFrequency(index, t).val
                               + Occurrences(t, Split(index'.documents[d].text))
      ]_vars

\* C10 witness: both cached counts are stale: documents were added after the
\* first calls, and the index now holds more than the caches say.
CachedCountsWitness ==
    /\ index.totalTokenCount # None
    /\ index.totalTokenCount < Cardinality(OccurrenceSet(index))
    /\ index.totalUniqueTokens # None
    /\ index.totalUniqueTokens < Cardinality(DOMAIN index.index)
    /\ index.docCount = 2

----------------------------------------------------------------------------
(* Claims about the retrieval functions, checked under SpecQuery *)

\* the documents a QueryResults object holds results for
Docs(results) == { results.results[i].document : i \in 1..Len(results.results) }

\* no document has two results
EachOnce(results) ==
    \A i, j \in 1..Len(results.results) :
        i # j => results.results[i].document # results.results[j].document

\* the document's whitespace-split text holds the word
Contains(self, document, word) ==
    \E k \in 1..Len(Split(self.documents[document].text)) :
        Split(self.documents[document].text)[k] = word

\* C1: runANDQuery on a non-empty term list returns exactly the documents in
\* the intersection of getDocumentIDsForToken(t) over the terms, each once
\* and with score 1, and nothing when a term is absent from the index.
ANDIsIntersection ==
    (query.type = TypeAND /\ Len(query.queryWords) > 0) =>
        /\ raised = NoError
        /\ queryResults.method = "AND"
        /\ Docs(queryResults)
             = { d \in DocIDs : \A i \in 1..Len(query.queryWords) :
                     d \in getDocumentIDsForToken(index, query.queryWords[i]).val }
        /\ EachOnce(queryResults)
        /\ \A i \in 1..Len(queryResults.results) : queryResults.results[i].score = Scale
        /\ (\E i \in 1..Len(query.queryWords) : query.queryWords[i] \notin DOMAIN index.index)
              => queryResults.results = <<>>

\* C1 witness: an AND query of two different terms, each in the index, one of
\* them in two documents, has returned the one document that holds both.
ANDIsIntersectionWitness ==
    /\ query.type = TypeAND
    /\ Len(query.queryWords) = 2
    /\ query.queryWords[1] # query.queryWords[2]
    /\ \E i \in 1..2 : Cardinality(getDocumentIDsForToken(index, query.queryWords[i]).val) = 2
    /\ Len(queryResults.results) = 1

\* C2: the documents runANDQuery returns are among those runORQuery returns
\* for the same terms and index.
ANDSubsetOfOR ==
    query.type = TypeAND =>
        \A order \in SetOrders(DocIDs) :
            Docs(queryResults) \subseteq Docs(runORQuery(index, query.queryWords, order).val)

\* C2 witness: an AND query has returned a document, and the OR query of the
\* same terms returns that one and another.
ANDSubsetOfORWitness ==
    /\ query.type = TypeAND
    /\ Docs(queryResults) # {}
    /\ \E order \in SetOrders(DocIDs) :
          Cardinality(Docs(runORQuery(index, query.queryWords, order).val))
            > Cardinality(Docs(queryResults))

\* C3: on a non-empty index, runORQuery, runQLQuery and runBM25Query each
\* return, once each, exactly the documents that hold at least one query term.
ORQLBM25SameDocuments ==
    (index.docCount > 0 /\ query.type \in {TypeOR, TypeQL, TypeBM25}) =>
        /\ raised = NoError
        /\ queryResults.method = MethodOf(query.type)
        /\ Docs(queryResults)
             = { d \in DOMAIN index.documents :
                     \E i \in 1..Len(query.queryWords) :
                         Contains(index, d, query.queryWords[i]) }
        /\ EachOnce(queryResults)

----------------------------------------------------------------------------
(* Claims about getFinalResults, checked under SpecRank *)

\* s <= t on strings, said without recursion: they agree on k characters,
\* and then s ends or has the smaller character
StrLE(s, t) ==
    \E k \in 0..Len(s) :
        /\ k <= Len(t)
        /\ \A i \in 1..k : s[i] = t[i]
        /\ \/ k = Len(s)
           \/ k < Len(t) /\ Ord[s[k + 1]] < Ord[t[k + 1]]

\* rows is one row per result of before, ranked 1, 2, ... in the order of after
OneRowPerResult(rows, before, after) ==
    /\ Len(rows) = Len(before)
    /\ Len(after) = Len(before)
    /\ \A k \in 1..Len(before) :
          \E i \in 1..Len(after) :
              /\ after[i] = before[k]
              /\ \A j \in 1..Len(after) : after[j].n = before[k].n => j = i
    /\ \A i \in 1..Len(rows) :
          /\ rows[i].rank = i
          /\ rows[i].document = after[i].document
          /\ rows[i].score = Round4(after[i].score)

\* C6: for method AND or OR, getFinalResults returns one row per added
\* result, by ascending document ID, ranked 1..N in that order, whatever the
\* order the results were added in.
BooleanRowsByDocument ==
    queryResults.method \in {"AND", "OR"} =>
        LET r == getFinalResults(queryResults, "q1", "cgibbons")
        IN  /\ OneRowPerResult(r.val, queryResults.results, r.self.results)
            /\ \A i, j \in 1..Len(r.val) :
                  i < j => StrLE(r.val[i].document, r.val[j].document)

\* C6 witness: getFinalResults has put the results of "d2", "d10", "d1",
\* added in another order, in the order "d1", "d10", "d2".
BooleanRowsWitness ==
    /\ queryResults.method = "OR"
    /\ Len(queryResults.results) = 3
    /\ queryResults.results[1].document = <<"d", "1">>
    /\ queryResults.results[2].document = <<"d", "1", "0">>
    /\ queryResults.results[3].document = <<"d", "2">>
    /\ queryResults.results[1].n = 3
    /\ queryResults.results[3].n = 1

\* C7: for method QL or BM25, getFinalResults returns one row per added
\* result, ranked 1..N with scores that do not increase, equal scores in the
\* order they were added.
ScoredRowsByScore ==
    queryResults.method \in {"QL", "BM25"} =>
        LET r      == getFinalResults(queryResults, "q1", "cgibbons")
            sorted == r.self.results
        IN  /\ OneRowPerResult(r.val, queryResults.results, sorted)
            /\ \A i, j \in 1..Len(sorted) :
                  i < j => /\ sorted[i].score >= sorted[j].score
                           /\ sorted[i].score = sorted[j].score => sorted[i].n < sorted[j].n

\* C7 witness: getFinalResults has put the result added last first, its
\* negative score being the least negative, ahead of two results of equal
\* score for different documents, which kept their order.
ScoredRowsWitness ==
    /\ queryResults.method = "QL"
    /\ Len(queryResults.results) = 3
    /\ queryResults.results[1].n = 3
    /\ queryResults.results[1].score < 0
    /\ queryResults.results[1].score > queryResults.results[2].score
    /\ queryResults.results[2].score = queryResults.results[3].score
    /\ queryResults.results[2].n < queryResults.results[3].n
    /\ StrLess(queryResults.results[3].document, queryResults.results[2].document)

----------------------------------------------------------------------------
(* Claims about runQueries, checked under SpecDriver *)

\* the rows of outputFile written under a query name
RowsNamed(queryName) == SelectSeq(outputFile, LAMBDA row : row.queryName = queryName)

\* the documents a query of a known type is to return
ExpectedDocs(q) ==
    IF StrUpper(q.type) = TypeAND
    THEN { d \in DocIDs : \A i \in 1..Len(q.queryWords) :
               d \in DOMAIN index.documents /\ Contains(index, d, q.queryWords[i]) }
    ELSE { d \in DOMAIN index.documents : \E i \in 1..Len(q.queryWords) :
               Contains(index, d, q.queryWords[i]) }

\* C5: when a query of the list has a type tag that is none of AND, OR, QL,
\* BM25 (in any case), and no retrieval function raises, runQueries raises
\* nothing, writes no row under that query's name, and writes under every
\* other query's name the rows of that query's own result.
UnknownTypeIsSilentNoOp ==
    LET queries == ReadQueries(queriesFile)
        Known(q) == StrUpper(q.type) \in {TypeAND, TypeOR, TypeQL, TypeBM25}
    IN  ( /\ \E i \in 1..Len(queries) : ~Known(queries[i])
          /\ raised \notin {"ValueError", "ZeroDivisionError"} )
        => /\ raised = NoError
           /\ \A i \in 1..Len(queries) :
                 LET rows == RowsNamed(queries[i].queryName)
                 IN  IF ~Known(queries[i])
                     THEN rows = <<>>
                     ELSE /\ { rows[k].document : k \in 1..Len(rows) } = ExpectedDocs(queries[i])
                          /\ Len(rows) = Cardinality(ExpectedDocs(queries[i]))
                          /\ \A k \in 1..Len(rows) :
                                /\ rows[k].rank = k
                                /\ rows[k].tag = <<"cgibbons", MethodOf(StrUpper(queries[i].type))>>

====
